---- MODULE Spec2Model ----
(***************************************************************************)
(* teleprompt-2api (Bun edition): the gateway of src/index.ts.             *)
(*                                                                         *)
(* One request travels through Bun.serve's fetch handler, handleApi,       *)
(* handleChatCompletions and, for stream = true, the detached chunk loop   *)
(* of handleStreamResponse.  An action is the code that runs between two   *)
(* awaits.  JavaScript strings the code slices or compares by prefix are   *)
(* sequences of one-character strings; strings the code only compares or   *)
(* uses as keys are TLA+ strings.  JSON.stringify and TextEncoder are not   *)
(* modelled: a record written to the stream is the object it serialises.   *)
(***************************************************************************)
EXTENDS Integers, Sequences, FiniteSets, TLC

\* ------------------------------------------------------------------ bounds
MaxText  == 5      \* longest upstream text
MaxMsgs  == 2      \* longest messages array
MaxClock == 1      \* seconds the wall clock may advance while a request runs

\* ------------------------------------------------------- JavaScript values
\* undefined / null / absent header, as a sequence no string can equal
Undefined == <<"undefined">>
\* an absent property of a parsed JSON object, for properties held as atoms
Absent == "<absent>"

\* JavaScript truthiness of a string-or-absent value held as an atom
Truthy(v) == v # Absent /\ v # ""

\* JavaScript truthiness of a string-or-absent value held as a sequence
TruthySeq(s) == s # Undefined /\ s # <<>>

\* String.prototype.startsWith
StartsWith(s, p) == Len(s) >= Len(p) /\ SubSeq(s, 1, Len(p)) = p

\* String.prototype.substring(n)
Substring(s, n) == SubSeq(s, n + 1, Len(s))

Min(a, b) == IF a < b THEN a ELSE b

\* String.prototype.slice(a, b) for 0 <= a <= b
Slice_inclusiveEnd(s, a, b) == SubSeq(s, a + 1, Min(b + 1, Len(s)))
Slice(s, a, b) == SubSeq(s, a + 1, Min(b, Len(s)))

\* ------------------------------------------------------------------ CONFIG
\* process.env.API_MASTER_KEY || "1"
Sentinel == <<"1">>
API_MASTER_KEY(envKey) == IF TruthySeq(envKey) THEN envKey ELSE Sentinel

ModelIds == {"teleprompt-reason", "teleprompt-standard", "teleprompt-apps"}
MODEL_MAP ==
  [m \in ModelIds |->
     CASE m = "teleprompt-reason"   -> "/api/v1/prompt/optimize_reason_auth"
       [] m = "teleprompt-standard" -> "/api/v1/prompt/optimize_auth"
       [] m = "teleprompt-apps"     -> "/api/v1/prompt/optimize_apps_auth"]
DEFAULT_MODEL == "teleprompt-reason"

\* MODEL_MAP is an object literal: a property read that misses the own keys
\* goes on to Object.prototype, whose members are truthy functions/objects.
\* The value is given as the text it takes in the URL template literal.
ObjectPrototype ==
  [k \in {"constructor", "toString"} |->
     CASE k = "constructor" -> "function Object() { [native code] }"
       [] k = "toString"    -> "function toString() { [native code] }"]
PropertyRead(key) ==
  IF key \in DOMAIN MODEL_MAP THEN MODEL_MAP[key]
  ELSE IF key \in DOMAIN ObjectPrototype THEN ObjectPrototype[key]
  ELSE Absent

\* const model = body.model || CONFIG.DEFAULT_MODEL
ResolveModel(m) == IF Truthy(m) THEN m ELSE DEFAULT_MODEL
\* const endpoint = CONFIG.MODEL_MAP[model] || CONFIG.MODEL_MAP[DEFAULT_MODEL]
ResolveEndpoint(model) ==
  IF Truthy(PropertyRead(model)) THEN PropertyRead(model)
  ELSE PropertyRead(DEFAULT_MODEL)

chunkSize == 2

\* ------------------------------------------------------------------ inputs
sk == <<"s", "k">>
Bearer == <<"B", "e", "a", "r", "e", "r", " ">>

\* values of the environment variable API_MASTER_KEY (unset, empty, "1", "sk")
EnvKeys == {Undefined, <<>>, Sentinel, sk}

Methods == {"OPTIONS", "GET", "POST"}

\* url.pathname as its segments: <<>> is "/", <<"v1", "models">> is "/v1/models"
ChatPath == <<"v1", "chat", "completions">>
Paths == {<<>>, <<"v1">>, <<"v1", "models">>, ChatPath, <<"v1", "other">>,
          <<"other">>}

\* values of the Authorization header (Undefined: no header)
AuthHeaders ==
  {Undefined, <<>>, Bearer, Bearer \o sk, Bearer \o <<"s">>,
   Bearer \o <<"s", "k", "k">>, Bearer \o Sentinel,
   <<"b", "e", "a", "r", "e", "r", " ">> \o sk,
   <<"B", "e", "a", "r", "e", "r">> \o sk, sk}

Roles == {"user", "assistant"}
Contents == {"p", "q"}
Message == [role : Roles, content : Contents]

RECURSIVE SeqsUpTo(_, _)
SeqsUpTo(S, n) ==
  IF n = 0 THEN {<<>>}
  ELSE LET shorter == SeqsUpTo(S, n - 1)
       IN  shorter \cup {Append(q, x) : q \in shorter, x \in S}

MsgLists == SeqsUpTo(Message, MaxMsgs)
ModelValues == ModelIds \cup {Absent, "", "gpt-4", "constructor"}

\* a request body: not JSON at all (or no body), or a JSON object
NoJson == [json |-> FALSE]
PlainBody ==
  [json |-> TRUE, hasMessages |-> TRUE,
   messages |-> <<[role |-> "user", content |-> "p"]>>,
   model |-> Absent, stream |-> TRUE]
\* bodies that vary messages (answered in one piece), and bodies that vary
\* model and stream
MessageBodies ==
  [json : {TRUE}, hasMessages : {TRUE}, messages : MsgLists,
   model : {Absent}, stream : {FALSE}]
  \cup [json : {TRUE}, hasMessages : {FALSE}, messages : {<<>>},
        model : {Absent}, stream : BOOLEAN]
ModelBodies ==
  [json : {TRUE}, hasMessages : {TRUE}, messages : {PlainBody.messages},
   model : ModelValues, stream : BOOLEAN]
JsonBodies == MessageBodies \cup ModelBodies

\* the requests of the model with the environment they arrive in: every
\* key, method, path and header with a body of no interest, and every body
\* on POST /v1/chat/completions of an open gateway
AuthRequests ==
  [method : Methods, path : Paths, auth : AuthHeaders,
   body : {NoJson, [PlainBody EXCEPT !.stream = FALSE]}]
ChatRequests ==
  [method : {"POST"}, path : {ChatPath}, auth : {Undefined}, body : JsonBodies]
Scenarios ==
  (EnvKeys \X AuthRequests) \cup ({Undefined} \X ChatRequests)

Chars == {"a", "b"}
Texts == SeqsUpTo(Chars, MaxText)
UUIDs == {"u1", "u2"}

\* what the upstream's response.json() resolves to
UpstreamJson ==
  [success : BOOLEAN, hasData : {TRUE}, data : Texts]
  \cup [success : BOOLEAN, hasData : {FALSE}, data : {<<>>}]
UpstreamStatuses == {200, 500}

\* ------------------------------------------------------------------- state
VARIABLES
  envKey,      \* process.env.API_MASTER_KEY
  now,         \* Math.floor(Date.now() / 1000)
  req,         \* the inbound request
  pc,          \* where the request's handler is suspended
  requestId,   \* handleApi's requestId
  upstreamReq, \* the outbound POST: endpoint and payload text
  calls,       \* number of outbound POSTs issued
  upstream,    \* the upstream's answer as far as it has been read
  response,    \* what the fetch handler returned
  stream,      \* text, model and requestId captured by the chunk loop
  idx,         \* the chunk loop's i
  spc,         \* where the chunk loop is suspended
  pend,        \* the record whose writer.write() is pending
  records,     \* the records written to the readable side, in order
  writer,      \* state of the writable side
  closeCalls,  \* number of writer.close() calls
  errLogged,   \* the catch block of the chunk loop has logged an error
  rejected,    \* the chunk loop's promise has rejected (nobody handles it)
  peer         \* a second request in flight on the same event loop: the
               \* same state as above, for that request, as one record

vars == <<peer, envKey, now, req, pc, requestId, upstreamReq, calls, upstream,
          response, stream, idx, spc, pend, records, writer, closeCalls,
          errLogged, rejected>>

chatVars == <<requestId, upstreamReq, calls, upstream>>
streamVars == <<stream, idx, spc, pend, records, writer, closeCalls,
                errLogged, rejected>>

NoResponse == [kind |-> "none"]
NoCall == [issued |-> FALSE]
NoUpstream == [settled |-> FALSE]
NoStream == [started |-> FALSE]
NoRecord == [type |-> "none"]

\* the second request: none, or one that has just arrived
NoPeer == [pc |-> "absent"]
ArrivedPeer ==
  [pc |-> "arrived", id |-> <<>>, calls |-> 0, call |-> NoCall,
   upstream |-> NoUpstream, response |-> NoResponse, stream |-> NoStream,
   idx |-> 0, spc |-> "none", pend |-> NoRecord, records |-> <<>>,
   writer |-> "none", closeCalls |-> 0, errLogged |-> FALSE,
   rejected |-> FALSE]

\* a request has arrived and nothing has run yet
InitRequest ==
  /\ now = 0
  /\ pc = "arrived"
  /\ requestId = <<>>
  /\ upstreamReq = NoCall
  /\ calls = 0
  /\ upstream = NoUpstream
  /\ response = NoResponse
  /\ stream = NoStream
  /\ idx = 0
  /\ spc = "none"
  /\ pend = NoRecord
  /\ records = <<>>
  /\ writer = "none"
  /\ closeCalls = 0
  /\ errLogged = FALSE
  /\ rejected = FALSE

Init ==
  /\ \E sc \in Scenarios : envKey = sc[1] /\ req = sc[2]
  /\ InitRequest
  /\ peer = NoPeer

\* ---------------------------------------------------------------- responses
\* createErrorResponse(message, status, code)
createErrorResponse(message, status, code) ==
  [kind |-> "error", status |-> status,
   body |-> [error |-> [message |-> message, type |-> "api_error",
                        code |-> code]]]

\* handleCorsPreflight()
handleCorsPreflight == [kind |-> "preflight", status |-> 204]

\* the health check of the fetch handler (no status given: 200)
HealthResponse ==
  [kind |-> "health", status |-> 200, body |-> [alive |-> TRUE]]

\* handleModelsRequest()
handleModelsRequest(t) ==
  [kind |-> "models", status |-> 200,
   body |-> [object |-> "list",
             data |-> {[id |-> m, object |-> "model", created |-> t] :
                         m \in DOMAIN MODEL_MAP}]]

\* handleNormalResponse(text, model, requestId)
handleNormalResponse(text, model, id, t) ==
  [kind |-> "completion", status |-> 200,
   body |-> [id |-> id, object |-> "chat.completion", created |-> t,
             model |-> model,
             choices |-> <<[index |-> 0,
                            message |-> [role |-> "assistant",
                                         content |-> text],
                            finish_reason |-> "stop"]>>]]

\* the Response handleStreamResponse returns around the readable side
StreamResponse ==
  [kind |-> "event-stream", status |-> 200]

\* the catch block of handleChatCompletions
Catch_rethrow(message) == [kind |-> "uncaught", status |-> 0, error |-> message]
Catch(message) == createErrorResponse(message, 500, "generation_failed")

\* ------------------------------------------------------------- Auth (81-94)
\* if (apiKey && apiKey !== "1")
AuthEnabled_noSentinel(apiKey) == TruthySeq(apiKey)
AuthEnabled(apiKey) == TruthySeq(apiKey) /\ apiKey # Sentinel

\* const token = authHeader.substring(7)
Token_keepsSpace(authHeader) == Substring(authHeader, 6)
Token(authHeader) == Substring(authHeader, 7)

\* the auth check of handleApi: "pass", or the status it rejects with
AuthCheck_tokenFirst(authHeader, apiKey) ==
  IF AuthEnabled(apiKey)
  THEN IF ~TruthySeq(authHeader) THEN "unauthorized"
       ELSE IF Token(authHeader) # apiKey THEN "invalid_api_key"
       ELSE IF ~StartsWith(authHeader, Bearer) THEN "unauthorized"
       ELSE "pass"
  ELSE "pass"
AuthCheck(authHeader, apiKey) ==
  IF AuthEnabled(apiKey)
  THEN IF ~TruthySeq(authHeader) \/ ~StartsWith(authHeader, Bearer)
       THEN "unauthorized"
       ELSE IF Token(authHeader) # apiKey THEN "invalid_api_key"
       ELSE "pass"
  ELSE "pass"

\* url.pathname.startsWith('/v1/')
StartsWithV1(path) == Len(path) >= 2 /\ path[1] = "v1"

\* ------------------------------------------- handleChatCompletions helpers
\* body.messages || []
MessagesOf(body) == IF body.hasMessages THEN body.messages ELSE <<>>

\* Array.prototype.reverse
Reverse_identity(s) == s
Reverse(s) == [k \in 1..Len(s) |-> s[Len(s) + 1 - k]]

IsUser_anyRole(m) == m.role \in Roles
IsUser(m) == m.role = "user"

\* Array.prototype.find(m => m.role === 'user'); [found |-> FALSE] is undefined
NotFound == [found |-> FALSE]
FindUser(s) ==
  LET hits == {k \in 1..Len(s) : IsUser(s[k])}
  IN  IF hits = {} THEN NotFound
      ELSE s[CHOOSE k \in hits : \A j \in hits : k <= j]

\* response.ok
Ok_anyStatus(status) == status >= 200
Ok(status) == status >= 200 /\ status <= 299

\* if (!data.success || !data.data)
BusinessError_ignoresSuccess(data) == ~data.hasData \/ ~TruthySeq(data.data)
BusinessError(data) == ~data.success \/ ~data.hasData \/ ~TruthySeq(data.data)

\* ---------------------------------------------- handleStreamResponse helpers
ContentChunk(id, model, t, content) ==
  [type |-> "chunk", id |-> id, created |-> t, model |-> model,
   hasContent |-> TRUE, content |-> content, finish_reason |-> "null"]
EndChunk_noFinish(id, model, t) ==
  [type |-> "chunk", id |-> id, created |-> t, model |-> model,
   hasContent |-> FALSE, content |-> <<>>, finish_reason |-> "null"]
EndChunk(id, model, t) ==
  [type |-> "chunk", id |-> id, created |-> t, model |-> model,
   hasContent |-> FALSE, content |-> <<>>, finish_reason |-> "stop"]
DoneRecord == [type |-> "done"]

\* i += chunkSize
NextIndex_byOne(i) == i + 1
NextIndex(i) == i + chunkSize

\* the id and the created of the chunk built at time t
ChunkId(st) == st.id
ChunkCreated(t) == t

\* the loop head at index i and time t: the next record to write and the
\* await it suspends at
LoopHead(st, i, t) ==
  IF i < Len(st.text)
  THEN [spc |-> "wcontent",
        pend |-> ContentChunk(ChunkId(st), st.model, ChunkCreated(t),
                              Slice(st.text, i, i + chunkSize))]
  ELSE [spc |-> "wend", pend |-> EndChunk(ChunkId(st), st.model, ChunkCreated(t))]

\* where the chunk loop goes after its catch block
AfterCatch_return == "return"
AfterCatch_continue == "continue"
AfterCatch == "finally"

\* ----------------------------------------------------------------- actions
Msg(text) == [text |-> text]
Return(r) == response' = r /\ pc' = "returned"

\* `req-${crypto.randomUUID()}`
ReqId(u) == <<"req-", u>>

\* Bun.serve's fetch handler with handleApi, up to the first await
\* (await request.json() in handleChatCompletions) or to the return
Fetch ==
  /\ pc = "arrived"
  /\ UNCHANGED <<peer, envKey, now, req, upstreamReq, calls, upstream, streamVars>>
  /\ IF req.method = "OPTIONS"
     THEN Return(handleCorsPreflight) /\ UNCHANGED requestId
     ELSE IF req.path = <<>>
     THEN Return(HealthResponse) /\ UNCHANGED requestId
     ELSE IF ~StartsWithV1(req.path)
     THEN /\ Return(createErrorResponse(Msg("Path not found"), 404, "not_found"))
          /\ UNCHANGED requestId
     ELSE LET auth == AuthCheck(req.auth, API_MASTER_KEY(envKey))
          IN  IF auth = "unauthorized"
              THEN /\ Return(createErrorResponse(
                        Msg("Missing or invalid Authorization header."),
                        401, "unauthorized"))
                   /\ UNCHANGED requestId
              ELSE IF auth = "invalid_api_key"
              THEN /\ Return(createErrorResponse(Msg("Invalid API Key."),
                                                 403, "invalid_api_key"))
                   /\ UNCHANGED requestId
              ELSE \E u \in UUIDs :
                     /\ requestId' = ReqId(u)
                     /\ IF req.path = <<"v1", "models">>
                        THEN Return(handleModelsRequest(now))
                        ELSE IF req.path = ChatPath
                        THEN pc' = "json" /\ UNCHANGED response
                        ELSE Return(createErrorResponse(
                               Msg("Method not allowed"), 404, "not_found"))

\* handleChatCompletions from the resumption after await request.json() to
\* await fetch(...), or to an early return
BodyParsed ==
  /\ pc = "json"
  /\ UNCHANGED <<peer, envKey, now, req, requestId, upstream, streamVars>>
  /\ IF ~req.body.json
     THEN /\ Return(Catch(Msg("Failed to parse JSON")))
          /\ UNCHANGED <<upstreamReq, calls>>
     ELSE LET messages == MessagesOf(req.body)
              lastMsg == FindUser(Reverse(messages))
          IN  IF lastMsg = NotFound
              THEN /\ Return(createErrorResponse(
                        Msg("User message not found (role: user)"),
                        400, "invalid_request"))
                   /\ UNCHANGED <<upstreamReq, calls>>
              ELSE LET prompt == lastMsg.content
                       model == ResolveModel(req.body.model)
                       endpoint == ResolveEndpoint(model)
                   IN  /\ upstreamReq' = [issued |-> TRUE, endpoint |-> endpoint,
                                          text |-> prompt]
                       /\ calls' = calls + 1
                       /\ pc' = "fetching"
                       /\ UNCHANGED response

NotRead == [read |-> FALSE]

\* whether a rejected fetch is issued once more: the fetch is in no loop
RetryOnReject_once == TRUE
RetryOnReject == FALSE

\* the outbound fetch settles: it rejects, or resolves with a status; the
\* handler goes on to await response.text() or response.json()
FetchSettles ==
  /\ pc = "fetching"
  /\ UNCHANGED <<peer, envKey, now, req, requestId, upstreamReq, streamVars>>
  /\ \/ /\ upstream' = [settled |-> TRUE, failed |-> TRUE]
        /\ IF RetryOnReject /\ calls <= 1
           THEN calls' = calls + 1 /\ UNCHANGED <<pc, response>>
           ELSE Return(Catch(Msg("fetch failed"))) /\ UNCHANGED calls
     \/ \E st \in UpstreamStatuses :
          /\ upstream' = [settled |-> TRUE, failed |-> FALSE, status |-> st,
                          body |-> NotRead]
          /\ pc' = IF ~Ok(st) THEN "text" ELSE "rjson"
          /\ UNCHANGED <<response, calls>>

\* handleStreamResponse(text, model, requestId): the writer is created and
\* the chunk loop runs to its first await before the Response is returned
StartStream(text, model, id) ==
  LET st == [started |-> TRUE, text |-> text, model |-> model, id |-> id]
      head == LoopHead(st, 0, now)
  IN  /\ stream' = st
      /\ writer' = "writable"
      /\ idx' = 0
      /\ spc' = head.spc
      /\ pend' = head.pend
      /\ Return(StreamResponse)
      /\ UNCHANGED <<records, closeCalls, errLogged, rejected>>

\* the upstream body has been read (or reading it failed): the rest of
\* handleChatCompletions
UpstreamBodyRead ==
  /\ pc \in {"text", "rjson"}
  /\ UNCHANGED <<peer, envKey, now, req, requestId, upstreamReq, calls>>
  /\ IF pc = "text"
     THEN /\ upstream' = [upstream EXCEPT !.body = [read |-> TRUE, json |-> FALSE]]
          /\ Return(Catch([text |-> "Upstream Error", status |-> upstream.status]))
          /\ UNCHANGED streamVars
     ELSE \/ /\ upstream' = [upstream EXCEPT !.body = [read |-> TRUE, json |-> FALSE]]
             /\ Return(Catch(Msg("Failed to parse JSON")))
             /\ UNCHANGED streamVars
          \/ \E data \in UpstreamJson :
               /\ upstream' = [upstream EXCEPT
                                 !.body = [read |-> TRUE, json |-> TRUE,
                                           data |-> data]]
               /\ IF BusinessError(data)
                  THEN /\ Return(Catch(Msg("Upstream Business Error")))
                       /\ UNCHANGED streamVars
                  ELSE LET resultText == data.data
                           model == ResolveModel(req.body.model)
                       IN  IF req.body.stream
                           THEN StartStream(resultText, model, requestId)
                           ELSE /\ Return(handleNormalResponse(
                                            resultText, model, requestId, now))
                                /\ UNCHANGED streamVars

\* a pending writer.write() settles: the record reaches the readable side,
\* or the write rejects (the client has gone) and the catch block runs
WriteSettles ==
  /\ spc \in {"wcontent", "wend", "wdone"}
  /\ UNCHANGED <<peer, envKey, now, req, pc, chatVars, response, stream, idx, rejected>>
  /\ \/ /\ writer = "writable"
        /\ records' = Append(records, pend)
        /\ UNCHANGED <<writer, errLogged>>
        /\ CASE spc = "wcontent" ->
                  spc' = "delay" /\ pend' = NoRecord /\ UNCHANGED closeCalls
             [] spc = "wend" ->
                  spc' = "wdone" /\ pend' = DoneRecord /\ UNCHANGED closeCalls
             [] spc = "wdone" ->
                  spc' = "close" /\ pend' = NoRecord
                  /\ closeCalls' = closeCalls + 1
     \/ /\ writer' = "errored"
        /\ errLogged' = TRUE
        /\ pend' = NoRecord
        /\ UNCHANGED records
        /\ CASE AfterCatch = "finally" ->
                  spc' = "close" /\ closeCalls' = closeCalls + 1
             [] AfterCatch = "return" ->
                  spc' = "done" /\ UNCHANGED closeCalls
             [] OTHER ->
                  spc' = "delay" /\ UNCHANGED closeCalls

\* the inter-chunk timer fires: i += chunkSize and the loop head again
DelayElapsed ==
  /\ spc = "delay"
  /\ UNCHANGED <<peer, envKey, now, req, pc, chatVars, response, stream, records,
                 writer, closeCalls, errLogged, rejected>>
  /\ LET head == LoopHead(stream, NextIndex(idx), now)
     IN  /\ idx' = NextIndex(idx)
         /\ spc' = head.spc
         /\ pend' = head.pend

\* await writer.close() settles: close() of an errored writer rejects, and
\* the rejection leaves the finally block
CloseSettles ==
  /\ spc = "close"
  /\ UNCHANGED <<peer, envKey, now, req, pc, chatVars, response, stream, idx, pend,
                 records, closeCalls, errLogged>>
  /\ spc' = "done"
  /\ IF writer = "errored"
     THEN rejected' = TRUE /\ UNCHANGED writer
     ELSE \/ writer' = "closed" /\ UNCHANGED rejected
          \/ writer' = "errored" /\ rejected' = TRUE

\* the wall clock reaches the next second while something is awaited
Tick ==
  /\ now < MaxClock
  /\ \/ pc \in {"json", "fetching", "text", "rjson"}
     \/ spc \in {"wcontent", "delay", "wend", "wdone", "close"}
  /\ now' = now + 1
  /\ UNCHANGED <<peer, envKey, req, pc, chatVars, response, streamVars>>

Next ==
  \/ Fetch
  \/ BodyParsed
  \/ FetchSettles
  \/ UpstreamBodyRead
  \/ WriteSettles
  \/ DelayElapsed
  \/ CloseSettles
  \/ Tick

Spec == Init /\ [][Next]_vars

\* The chunk loop on its own: an open gateway, one streaming request.
InitStream ==
  /\ Init
  /\ envKey = Undefined
  /\ req = [method |-> "POST", path |-> ChatPath, auth |-> Undefined,
            body |-> PlainBody]

\* every await of the chunk loop settles: the upstream answers, the
\* transport resolves or rejects each write and each close, the timer fires
FairSpec ==
  /\ InitStream
  /\ [][Next]_vars
  /\ WF_vars(WriteSettles)
  /\ WF_vars(DelayElapsed)
  /\ WF_vars(CloseSettles)

\* ------------------------------------------- two requests on one event loop
\* Bun.serve calls the same fetch handler for every request; each call has
\* its own locals (requestId, body, response, data, writer, i), and the
\* module keeps nothing but the constant CONFIG. The second request is a
\* streaming chat request on the open gateway; its steps are the steps
\* above, taken on its own record.
PeerReq ==
  [method |-> "POST", path |-> ChatPath, auth |-> Undefined, body |-> PlainBody]
PeerUUIDs == {"u3"}

\* the upstream answers the two requests draw from
PairTexts == {<<"a">>, <<"b", "a">>, <<"a", "b", "a">>}
PairJson ==
  [success : {TRUE}, hasData : {TRUE}, data : PairTexts]
  \cup [success : {FALSE}, hasData : {FALSE}, data : {<<>>}]

PeerReturn(p, r) == [p EXCEPT !.response = r, !.pc = "returned"]

\* for (let i = 0; ...): the loop index is a local of the call's own closure
PeerIndex_moduleLevel(p) == idx
PeerIndex(p) == p.idx

\* the fetch handler and handleApi for the second request
PeerFetch ==
  /\ peer.pc = "arrived"
  /\ UNCHANGED <<envKey, now, req, pc, chatVars, response, streamVars>>
  /\ LET auth == AuthCheck(PeerReq.auth, API_MASTER_KEY(envKey))
     IN  IF auth = "unauthorized"
         THEN peer' = PeerReturn(peer, createErrorResponse(
                        Msg("Missing or invalid Authorization header."),
                        401, "unauthorized"))
         ELSE IF auth = "invalid_api_key"
         THEN peer' = PeerReturn(peer, createErrorResponse(
                        Msg("Invalid API Key."), 403, "invalid_api_key"))
         ELSE \E u \in PeerUUIDs :
                peer' = [peer EXCEPT !.id = ReqId(u), !.pc = "json"]

\* handleChatCompletions of the second request up to await fetch(...)
PeerBodyParsed ==
  /\ peer.pc = "json"
  /\ UNCHANGED <<envKey, now, req, pc, chatVars, response, streamVars>>
  /\ LET lastMsg == FindUser(Reverse(MessagesOf(PeerReq.body)))
     IN  IF lastMsg = NotFound
         THEN peer' = PeerReturn(peer, createErrorResponse(
                        Msg("User message not found (role: user)"),
                        400, "invalid_request"))
         ELSE peer' = [peer EXCEPT
                         !.call = [issued |-> TRUE,
                                   endpoint |-> ResolveEndpoint(
                                     ResolveModel(PeerReq.body.model)),
                                   text |-> lastMsg.content],
                         !.calls = @ + 1,
                         !.pc = "fetching"]

\* the second request's outbound fetch settles
PeerFetchSettles ==
  /\ peer.pc = "fetching"
  /\ UNCHANGED <<envKey, now, req, pc, chatVars, response, streamVars>>
  /\ \/ peer' = PeerReturn([peer EXCEPT !.upstream =
                              [settled |-> TRUE, failed |-> TRUE]],
                           Catch(Msg("fetch failed")))
     \/ \E st \in UpstreamStatuses :
          peer' = [peer EXCEPT
                     !.upstream = [settled |-> TRUE, failed |-> FALSE,
                                   status |-> st, body |-> NotRead],
                     !.pc = IF ~Ok(st) THEN "text" ELSE "rjson"]

\* the second request's upstream body has been read: the rest of its
\* handleChatCompletions, and handleStreamResponse to its first await
PeerUpstreamBodyRead ==
  /\ peer.pc \in {"text", "rjson"}
  /\ UNCHANGED <<envKey, now, req, pc, chatVars, response, streamVars>>
  /\ IF peer.pc = "text"
     THEN peer' = PeerReturn(
                    [peer EXCEPT !.upstream.body = [read |-> TRUE, json |-> FALSE]],
                    Catch([text |-> "Upstream Error",
                           status |-> peer.upstream.status]))
     ELSE \/ peer' = PeerReturn(
                       [peer EXCEPT !.upstream.body =
                                      [read |-> TRUE, json |-> FALSE]],
                       Catch(Msg("Failed to parse JSON")))
          \/ \E data \in PairJson :
               LET p == [peer EXCEPT !.upstream.body =
                                       [read |-> TRUE, json |-> TRUE,
                                        data |-> data]]
               IN  IF BusinessError(data)
                   THEN peer' = PeerReturn(p, Catch(Msg("Upstream Business Error")))
                   ELSE LET st == [started |-> TRUE, text |-> data.data,
                                   model |-> ResolveModel(PeerReq.body.model),
                                   id |-> peer.id]
                            head == LoopHead(st, 0, now)
                        IN  peer' = PeerReturn(
                                      [p EXCEPT !.stream = st,
                                                !.writer = "writable",
                                                !.idx = 0,
                                                !.spc = head.spc,
                                                !.pend = head.pend],
                                      StreamResponse)

\* a pending write of the second request settles
PeerWriteSettles ==
  /\ peer.spc \in {"wcontent", "wend", "wdone"}
  /\ UNCHANGED <<envKey, now, req, pc, chatVars, response, streamVars>>
  /\ \/ /\ peer.writer = "writable"
        /\ peer' = [peer EXCEPT
                      !.records = Append(@, peer.pend),
                      !.spc = CASE peer.spc = "wcontent" -> "delay"
                                [] peer.spc = "wend" -> "wdone"
                                [] OTHER -> "close",
                      !.pend = IF peer.spc = "wend" THEN DoneRecord ELSE NoRecord,
                      !.closeCalls = IF peer.spc = "wdone" THEN @ + 1 ELSE @]
     \/ peer' = [peer EXCEPT
                   !.writer = "errored",
                   !.errLogged = TRUE,
                   !.pend = NoRecord,
                   !.spc = CASE AfterCatch = "finally" -> "close"
                             [] AfterCatch = "return" -> "done"
                             [] OTHER -> "delay",
                   !.closeCalls = IF AfterCatch = "finally" THEN @ + 1 ELSE @]

\* the second request's inter-chunk timer fires
PeerDelayElapsed ==
  /\ peer.spc = "delay"
  /\ UNCHANGED <<envKey, now, req, pc, chatVars, response, streamVars>>
  /\ LET i == NextIndex(PeerIndex(peer))
         head == LoopHead(peer.stream, i, now)
     IN  peer' = [peer EXCEPT !.idx = i, !.spc = head.spc, !.pend = head.pend]

\* the second request's await writer.close() settles
PeerCloseSettles ==
  /\ peer.spc = "close"
  /\ UNCHANGED <<envKey, now, req, pc, chatVars, response, streamVars>>
  /\ IF peer.writer = "errored"
     THEN peer' = [peer EXCEPT !.spc = "done", !.rejected = TRUE]
     ELSE \/ peer' = [peer EXCEPT !.spc = "done", !.writer = "closed"]
          \/ peer' = [peer EXCEPT !.spc = "done", !.writer = "errored",
                                  !.rejected = TRUE]

PeerNext ==
  \/ PeerFetch
  \/ PeerBodyParsed
  \/ PeerFetchSettles
  \/ PeerUpstreamBodyRead
  \/ PeerWriteSettles
  \/ PeerDelayElapsed
  \/ PeerCloseSettles

\* two streaming chat requests have arrived on the open gateway
InitPair ==
  /\ envKey = Undefined
  /\ req = PeerReq
  /\ InitRequest
  /\ peer = ArrivedPeer

\* a step of the first request, its upstream answering from PairJson
FirstNext ==
  /\ Next
  /\ (upstream'.settled /\ ~upstream'.failed /\ upstream'.body.read
        /\ upstream'.body.json) => upstream'.body.data \in PairJson

\* the event loop runs one continuation at a time, of either request
PairNext == FirstNext \/ PeerNext

\* every await of the second request settles; nothing is assumed about the
\* first request, whose upstream may hang and whose client may stall
PairSpec ==
  /\ InitPair
  /\ [][PairNext]_vars
  /\ WF_vars(PeerNext)

\* ------------------------------------------------ vocabulary of the claims
IsChunk(r) == r.type = "chunk"
IsContent(r) == r.type = "chunk" /\ r.hasContent
IsStop(r) == r.type = "chunk" /\ ~r.hasContent /\ r.finish_reason = "stop"
IsDone(r) == r.type = "done"

ContentRecords == SelectSeq(records, IsContent)

RECURSIVE Concat(_)
Concat(rs) == IF rs = <<>> THEN <<>> ELSE Head(rs).content \o Concat(Tail(rs))

\* the text the client has received so far
Emitted == Concat(ContentRecords)

StopWritten == \E k \in 1..Len(records) : IsStop(records[k])
DoneWritten == \E k \in 1..Len(records) : IsDone(records[k])

Ceil(n, d) == (n + d - 1) \div d

\* ----------------------------------------------------------------------- C1
\* C1 as stated: when the chunk loop has finished, the delta.content values
\* of the emitted content chunks, concatenated in emission order, are the
\* upstream text exactly.
C1_RoundTripEveryStream ==
  spc = "done" => Emitted = stream.text

\* C1 amended: the concatenation of the emitted delta.content values is at
\* every moment a prefix of the upstream text (slices in order, no gap, no
\* duplicate), and it is the whole text once the stop chunk has been written.
C1_RoundTrip ==
  stream.started =>
    /\ Len(Emitted) <= Len(stream.text)
    /\ Emitted = SubSeq(stream.text, 1, Len(Emitted))
    /\ StopWritten => Emitted = stream.text

C1_Witness ==
  /\ spc = "done"
  /\ StopWritten
  /\ Len(ContentRecords) = 3
  /\ Emitted = stream.text
  /\ stream.text = <<"a", "b", "b", "a", "b">>

\* ----------------------------------------------------------------------- C2
\* the content chunks carry 2 characters each, the one that ends the text
\* carries what is left (1 or 2)
ChunkSizesRight ==
  \A k \in 1..Len(ContentRecords) :
    LET n == Len(ContentRecords[k].content)
    IN  IF 2 * k <= Len(stream.text) THEN n = 2
        ELSE n = Len(stream.text) - 2 * (k - 1) /\ n >= 1 /\ n <= 2

\* C2 as stated: a finished chunk loop has emitted exactly ceil(L/2) content
\* chunks for a text of length L, all of 2 characters but the last, which
\* has 1 or 2.
C2_ChunkCountEveryStream ==
  spc = "done" =>
    /\ Len(ContentRecords) = Ceil(Len(stream.text), 2)
    /\ ChunkSizesRight

\* C2 amended: at most ceil(L/2) content chunks are emitted, exactly
\* ceil(L/2) once the stop chunk has been written; every content chunk has
\* 2 characters except the one that ends the text, which has 1 or 2.
C2_ChunkCount ==
  stream.started =>
    /\ Len(ContentRecords) <= Ceil(Len(stream.text), 2)
    /\ StopWritten => Len(ContentRecords) = Ceil(Len(stream.text), 2)
    /\ ChunkSizesRight

C2_Witness ==
  /\ spc = "done"
  /\ StopWritten
  /\ Len(stream.text) = 5
  /\ Len(ContentRecords) = 3
  /\ Len(ContentRecords[1].content) = 2
  /\ Len(ContentRecords[2].content) = 2
  /\ Len(ContentRecords[3].content) = 1

\* ----------------------------------------------------------------------- C3
\* the records end with one stop chunk and then the [DONE] sentinel, and
\* only content chunks come before
EndsProperly(rs) ==
  /\ Len(rs) >= 2
  /\ IsDone(rs[Len(rs)])
  /\ IsStop(rs[Len(rs) - 1])
  /\ \A k \in 1..(Len(rs) - 2) : IsContent(rs[k])

\* C3 as stated: every finished streaming response ends with exactly one
\* stop chunk after all content chunks, then the [DONE] record, and nothing
\* after it.
C3_TerminationEveryStream ==
  spc = "done" => EndsProperly(records)

\* C3 amended: a stream whose writes all succeeded ends with exactly one stop
\* chunk after all content chunks, then [DONE]; in every stream a stop chunk
\* is written at most once and only after content chunks, [DONE] only right
\* after the stop chunk, and nothing after [DONE].
C3_Termination ==
  /\ (spc \in {"close", "done"} /\ ~errLogged) => EndsProperly(records)
  /\ \A k \in 1..Len(records) :
       /\ IsStop(records[k]) =>
            /\ \A j \in 1..(k - 1) : IsContent(records[j])
            /\ k = Len(records) \/ (k + 1 = Len(records) /\ IsDone(records[k + 1]))
       /\ IsDone(records[k]) =>
            k = Len(records) /\ k > 1 /\ IsStop(records[k - 1])
       /\ IsContent(records[k]) \/ IsStop(records[k]) \/ IsDone(records[k])

C3_Witness ==
  /\ spc = "done"
  /\ ~errLogged
  /\ writer = "closed"
  /\ Len(records) = 5
  /\ EndsProperly(records)

\* ----------------------------------------------------------------------- C4
\* C4: a streaming response that has started eventually reaches CLOSED: the
\* chunk loop has finished and has called writer.close(), whether its writes
\* succeeded or one of them failed.
C4_Closure ==
  stream.started ~> (spc = "done" /\ closeCalls = 1 /\ writer # "writable")

\* a write failed in EMITTING and the loop went on to close the writer
C4_Witness ==
  /\ spc = "done"
  /\ errLogged
  /\ ~StopWritten
  /\ Len(records) = 1
  /\ closeCalls = 1

\* ----------------------------------------------------------------------- C5
\* C5: all chunks of one streaming response, content chunks and the stop
\* chunk, carry the same id and the same created timestamp.
C5_SharedIdentity ==
  \A j, k \in 1..Len(records) :
    (IsChunk(records[j]) /\ IsChunk(records[k])) =>
      /\ records[j].id = records[k].id
      /\ records[j].created = records[k].created

\* ----------------------------------------------------------------------- C6
\* handleChatCompletions has been called for the request
ChatInvoked == requestId # <<>> /\ req.path = ChatPath

NoUserMessage(body) ==
  ~body.hasMessages \/ \A k \in 1..Len(body.messages) : body.messages[k].role # "user"

StatusOf(r) == IF r.kind = "none" THEN 0 ELSE r.status
CodeOf(r) == IF r.kind = "error" THEN r.body.error.code ELSE ""

\* C6: a chat-completions request whose messages hold no message of role
\* "user" (absent and empty messages included) is answered with status 400
\* and code invalid_request, never with anything else, and no upstream call
\* is made for it.
C6_MissingUserMessage ==
  (ChatInvoked /\ req.body.json /\ NoUserMessage(req.body)) =>
    \/ pc = "json" /\ response = NoResponse
    \/ /\ pc = "returned"
       /\ StatusOf(response) = 400
       /\ CodeOf(response) = "invalid_request"
       /\ calls = 0

C6_Witness ==
  /\ ChatInvoked
  /\ req.body.json
  /\ req.body.hasMessages
  /\ Len(req.body.messages) >= 1
  /\ NoUserMessage(req.body)
  /\ StatusOf(response) = 400

\* ----------------------------------------------------------------------- C7
WellFormed(r) ==
  \/ /\ r.kind = "completion"
     /\ r.status = 200
     /\ r.body.object = "chat.completion"
     /\ Len(r.body.choices) = 1
  \/ /\ r.kind = "event-stream"
     /\ r.status = 200
  \/ /\ r.kind = "error"
     /\ r.status \in {400, 500}
     /\ r.body.error.type = "api_error"
     /\ r.body.error.code \in {"invalid_request", "generation_failed"}

\* C7: for a ChatRequest with a user message, whatever the upstream does, no
\* error leaves handleChatCompletions: what it returns is a ChatCompletion,
\* an event stream or the JSON error envelope.
C7_TotalHandler ==
  (ChatInvoked /\ req.body.json /\ ~NoUserMessage(req.body)) =>
    /\ response.kind \in {"none", "completion", "event-stream", "error"}
    /\ pc = "returned" => WellFormed(response)
    /\ pc # "returned" => response = NoResponse

\* the outbound fetch rejected and the handler answered with the envelope
C7_Witness ==
  /\ ChatInvoked
  /\ req.body.json
  /\ ~NoUserMessage(req.body)
  /\ upstream.settled
  /\ upstream.failed
  /\ pc = "returned"
  /\ StatusOf(response) = 500
  /\ CodeOf(response) = "generation_failed"

\* ----------------------------------------------------------------------- C8
KeyConfigured == API_MASTER_KEY(envKey) # Sentinel
CorrectHeader == req.auth = Bearer \o API_MASTER_KEY(envKey)
AuthRejected == StatusOf(response) \in {401, 403}

\* C8 as stated: with a configured key, every /v1/* request without the
\* exact header "Bearer <key>" gets 401 or 403 and is not served, and a
\* request with the correct header is never rejected for auth.
C8_AuthGateEveryRequest ==
  (KeyConfigured /\ StartsWithV1(req.path)) =>
    /\ (~CorrectHeader /\ pc # "arrived") =>
         AuthRejected /\ pc = "returned" /\ requestId = <<>>
    /\ CorrectHeader => ~AuthRejected

\* C8 amended: with a configured key, every /v1/* request other than an
\* OPTIONS preflight (answered 204 before the auth gate) that lacks the exact
\* header "Bearer <key>" gets 401 or 403 and is not served, and a request
\* with the correct header is never rejected for auth.
C8_AuthGate ==
  (KeyConfigured /\ StartsWithV1(req.path)) =>
    /\ (~CorrectHeader /\ req.method # "OPTIONS" /\ pc # "arrived") =>
         AuthRejected /\ pc = "returned" /\ requestId = <<>>
    /\ CorrectHeader => ~AuthRejected

\* a token that is a proper prefix of the key is turned away
C8_Witness ==
  /\ KeyConfigured
  /\ req.path = ChatPath
  /\ req.method = "POST"
  /\ req.auth = Bearer \o <<"s">>
  /\ StatusOf(response) = 403

\* ----------------------------------------------------------------------- C9
\* C9: when the master key is the sentinel "1" (also when the variable is
\* unset or empty), no response has status 401 or 403, whatever the
\* Authorization header is.
C9_AuthDisabled ==
  API_MASTER_KEY(envKey) = Sentinel => ~AuthRejected

C9_Witness ==
  /\ envKey = Undefined
  /\ req.auth = Bearer \o sk
  /\ req.path = <<"v1", "models">>
  /\ response.kind = "models"

\* ---------------------------------------------------------------------- C10
EndpointPaths == {MODEL_MAP[m] : m \in DOMAIN MODEL_MAP}

\* C10: whatever the request's model is, the endpoint of the upstream call
\* is an endpoint path of the registry, and it is the default model's when
\* the model is absent or is not a key of the mapping.
C10_ModelResolution ==
  upstreamReq.issued =>
    /\ upstreamReq.endpoint \in EndpointPaths
    /\ req.body.model \notin ModelIds =>
         upstreamReq.endpoint = MODEL_MAP[DEFAULT_MODEL]

\* ---------------------------------------------------------------------- C11
\* the upstream answered with a success status and a JSON envelope that has
\* success = true and data present
WellFormedUpstream ==
  /\ upstream.settled
  /\ ~upstream.failed
  /\ upstream.status >= 200 /\ upstream.status <= 299
  /\ upstream.body.read
  /\ upstream.body.json
  /\ upstream.body.data.success
  /\ upstream.body.data.hasData

\* C11: a well-formed upstream result with data T, the empty string
\* included, gives a non-streaming request a ChatCompletion whose
\* choices[0].message.content is T.
C11_Verbatim ==
  (pc = "returned" /\ WellFormedUpstream /\ ~req.body.stream) =>
    /\ response.kind = "completion"
    /\ response.body.choices[1].message.content = upstream.body.data.data

\* ---------------------------------------------------------------------- C12
\* the upstream answered with a non-success status, or with a success status
\* and an envelope that has success = false or no data
UpstreamFailure ==
  /\ upstream.settled
  /\ ~upstream.failed
  /\ \/ upstream.status < 200
     \/ upstream.status > 299
     \/ /\ upstream.body.read
        /\ upstream.body.json
        /\ ~upstream.body.data.success \/ ~upstream.body.data.hasData

\* C12: after an upstream failure (non-success status, success = false or
\* data absent) the client gets status 500 with code generation_failed, with
\* stream on or off, and no completion and no SSE record is delivered.
C12_UpstreamFailure ==
  UpstreamFailure =>
    /\ ~stream.started
    /\ records = <<>>
    /\ response.kind \in {"none", "error"}
    /\ pc = "returned" =>
         StatusOf(response) = 500 /\ CodeOf(response) = "generation_failed"

\* a streaming request whose upstream answered 500
C12_Witness ==
  /\ pc = "returned"
  /\ req.body.json
  /\ req.body.stream
  /\ UpstreamFailure
  /\ upstream.status = 500
  /\ StatusOf(response) = 500
  /\ response.body.error.message.text = "Upstream Error"
  /\ response.body.error.message.status = 500

\* ---------------------------------------------------------------------- C13
\* the greatest index of a message of role "user"
LastUserIndex(msgs) ==
  CHOOSE k \in 1..Len(msgs) :
    /\ msgs[k].role = "user"
    /\ \A j \in (k + 1)..Len(msgs) : msgs[j].role # "user"

\* C13: the text of the upstream payload is the content of the message of
\* role "user" with the greatest index, whatever other messages precede or
\* follow it.
C13_PromptSelection ==
  upstreamReq.issued =>
    upstreamReq.text = req.body.messages[LastUserIndex(req.body.messages)].content

\* two user messages: the later one is sent
C13_Witness ==
  /\ upstreamReq.issued
  /\ req.body.messages = <<[role |-> "user", content |-> "p"],
                           [role |-> "user", content |-> "q"]>>
  /\ upstreamReq.text = "q"

\* ---------------------------------------------------------------------- C14
\* C14: after a failed write the chunk loop goes to CLOSED and no error
\* leaves it: its promise does not reject, neither from the failed write nor
\* from the close of the failed writer.
C14_WriteFailureAbsorbed ==
  errLogged => (spc \in {"close", "done"} /\ ~rejected)

\* ---------------------------------------------------------------------- C16
\* C16: a chat-completions request whose body is malformed (not JSON) is
\* answered with 400 invalid_request, not with 500 generation_failed.
C16_MalformedBody ==
  (ChatInvoked /\ ~req.body.json /\ pc = "returned") =>
    StatusOf(response) = 400 /\ CodeOf(response) = "invalid_request"

\* ---------------------------------------------------------------------- C17
\* the header is missing or does not begin with "Bearer "
BadHeaderFormat(h) ==
  h = Undefined \/ Len(h) < 7 \/ SubSeq(h, 1, 7) # Bearer

Classified ==
  /\ BadHeaderFormat(req.auth) =>
       StatusOf(response) = 401 /\ CodeOf(response) = "unauthorized"
  /\ (~BadHeaderFormat(req.auth) /\
      SubSeq(req.auth, 8, Len(req.auth)) # API_MASTER_KEY(envKey)) =>
       StatusOf(response) = 403 /\ CodeOf(response) = "invalid_api_key"

\* C17 as stated: with a configured key, a /v1/* request gets 401
\* unauthorized when its Authorization header is absent or does not start
\* with "Bearer ", and 403 invalid_api_key when the header starts with
\* "Bearer " and the token differs from the key.
C17_ClassificationEveryRequest ==
  (KeyConfigured /\ StartsWithV1(req.path) /\ pc # "arrived") => Classified

\* C17 amended: the same for every /v1/* request other than an OPTIONS
\* preflight, which is answered 204 before the header is looked at.
C17_Classification ==
  (KeyConfigured /\ StartsWithV1(req.path) /\ req.method # "OPTIONS"
     /\ pc # "arrived") => Classified

\* the bare key without "Bearer " is a format error, not a wrong key
C17_Witness ==
  /\ KeyConfigured
  /\ req.method = "POST"
  /\ req.path = ChatPath
  /\ req.auth = sk
  /\ StatusOf(response) = 401
  /\ CodeOf(response) = "unauthorized"

\* ---------------------------------------------------------------------- C15
\* the k-th record of the complete sequence for the text: the content
\* chunks in order, the stop chunk, [DONE]
IsRecordOfFullSequence(r, k, text) ==
  LET n == Ceil(Len(text), 2)
  IN  IF k <= n
      THEN IsContent(r) /\ r.content = SubSeq(text, 2 * k - 1, Min(2 * k, Len(text)))
      ELSE IF k = n + 1 THEN IsStop(r)
      ELSE k = n + 2 /\ IsDone(r)

\* C15: once a streaming response has started, a failure shows only as
\* truncation: the records delivered are a prefix of the complete sequence,
\* after the first failed write no write is attempted, and the response
\* stays the 200 event stream, never an error status or a JSON error body.
C15_TruncationOnly ==
  stream.started =>
    /\ \A k \in 1..Len(records) :
         IsRecordOfFullSequence(records[k], k, stream.text)
    /\ errLogged => (pend = NoRecord /\ spc \in {"close", "done"})
    /\ response.kind = "event-stream"
    /\ response.status = 200

\* the third write failed: two of the three content chunks were delivered
C15_Witness ==
  /\ errLogged
  /\ spc = "done"
  /\ Len(stream.text) = 5
  /\ Len(records) = 2
  /\ Emitted = SubSeq(stream.text, 1, 4)
  /\ response.status = 200

\* ---------------------------------------------------------------------- C18
\* C18: at most one outbound POST is issued for a request; a failed attempt
\* is not retried but answered at once with one error; no POST is issued
\* for a request the auth gate rejects or one without a user message.
C18_SingleAttempt ==
  /\ calls <= 1
  /\ calls = IF upstreamReq.issued THEN 1 ELSE 0
  /\ (upstream.settled /\ upstream.failed) =>
       /\ calls = 1
       /\ pc = "returned"
       /\ StatusOf(response) = 500
  /\ (UpstreamFailure /\ pc = "returned") => calls = 1
  /\ (KeyConfigured /\ ~CorrectHeader) => calls = 0
  /\ (req.body.json /\ NoUserMessage(req.body)) => calls = 0

\* the one attempt failed and the request was answered with the error
C18_Witness ==
  /\ upstream.settled
  /\ upstream.failed
  /\ calls = 1
  /\ pc = "returned"
  /\ CodeOf(response) = "generation_failed"

\* ---------------------------------------------------------------------- C20
\* the chunk loop exists only after the upstream call has completed and its
\* envelope has been validated, and it works on the whole upstream text
StreamAfterUpstream ==
  (stream.started \/ records # <<>> \/ pend # NoRecord) =>
    /\ WellFormedUpstream
    /\ stream.started
    /\ stream.text = upstream.body.data.data
    /\ calls = 1
    /\ pc = "returned"
    /\ response.kind = "event-stream"

\* the step that returns the event-stream response has issued the first
\* write but has not waited for it: no record is written yet
ReturnedBeforeRecords ==
  (response.kind = "none" /\ response'.kind = "event-stream") =>
    /\ records' = <<>>
    /\ spc' \in {"wcontent", "wend"}
    /\ pend' # NoRecord

\* C20: for stream = true the upstream call has completed and been validated
\* before the streaming response is created, no SSE record is written before
\* the whole upstream text is known, and the event-stream response is
\* returned without waiting for the chunk loop, which writes afterwards.
C20_Ordering ==
  []StreamAfterUpstream /\ [][ReturnedBeforeRecords]_vars

\* the response has been returned and the first write is still pending
C20_Witness ==
  /\ response.kind = "event-stream"
  /\ pc = "returned"
  /\ WellFormedUpstream
  /\ records = <<>>
  /\ spc = "wcontent"
  /\ Len(stream.text) = 5

\* what the upstream's answer to one request makes of that request
UpstreamGood(up) ==
  /\ up.settled
  /\ ~up.failed
  /\ up.status = 200
  /\ up.body.read
  /\ up.body.json
  /\ up.body.data.success
  /\ up.body.data.data # <<>>

\* a returned chat request answers from its own upstream result alone
OwnOutcome(p, resp, up, st, id) ==
  p = "returned" =>
    IF UpstreamGood(up)
    THEN /\ resp.kind = "event-stream"
         /\ st.started
         /\ st.text = up.body.data.data
         /\ st.id = id
    ELSE /\ StatusOf(resp) = 500
         /\ CodeOf(resp) = "generation_failed"
         /\ ~st.started

\* the records of a stream are its own: its id on every chunk, the slices
\* of its own text in order, and its own terminal records when no write of
\* it failed
OwnRecords(rs, st, id, s, failed) ==
  /\ \A k \in 1..Len(rs) :
       /\ IsRecordOfFullSequence(rs[k], k, st.text)
       /\ IsChunk(rs[k]) => rs[k].id = id
  /\ (s = "done" /\ ~failed) =>
       (EndsProperly(rs) /\ Len(rs) = Ceil(Len(st.text), 2) + 2)

PairSafe ==
  /\ OwnOutcome(pc, response, upstream, stream, requestId)
  /\ OwnOutcome(peer.pc, peer.response, peer.upstream, peer.stream, peer.id)
  /\ OwnRecords(records, stream, requestId, spc, errLogged)
  /\ OwnRecords(peer.records, peer.stream, peer.id, peer.spc, peer.errLogged)

\* no step of one request changes anything of the other
OneRequestPerStep ==
  \/ peer' = peer
  \/ UNCHANGED <<req, pc, chatVars, response, streamVars>>

\* the second request runs to its end whatever the first one does
PeerCompletes ==
  (peer.pc = "arrived") ~> (peer.pc = "returned" /\ peer.spc \in {"none", "done"})

\* C19: with two requests in flight on the one event loop, each request's
\* outcome follows from its own upstream result, the records of each stream
\* carry its own id, its own slices in order and its own terminal records,
\* no step of one request changes the other's state, and the second
\* request completes even if the first one's upstream never answers or its
\* stream stalls or fails.
C19_Isolation ==
  /\ []PairSafe
  /\ [][OneRequestPerStep]_vars
  /\ PeerCompletes

\* the first stream failed after one of its two content chunks, while the
\* second stream, of another text, delivered its content chunk and its
\* terminal records
C19_Witness ==
  /\ stream.started /\ Len(stream.text) = 3
  /\ errLogged /\ Len(records) = 1
  /\ peer.spc = "done" /\ ~peer.errLogged
  /\ Len(peer.stream.text) = 2 /\ Len(peer.records) = 3
====
